---- MODULE Spec2Model ----
(***************************************************************************)
(* Model of pkg/config/config.go of nebula-importer: the schema resolver   *)
(* (the validateAndReset methods) and the record compiler (the             *)
(* FormatValues methods).                                                  *)
(*                                                                         *)
(* Encoding.  A Go pointer *T is a sequence: <<>> is nil and <<v>> points  *)
(* to v.  A Go string is a sequence of one-character strings, so that      *)
(* ToLower, %q quoting, Split and the int conversion are computed on the   *)
(* characters.  A method with a pointer receiver that mutates it returns   *)
(* an outcome [st, msg, v]: st is "ok" (nil error), "err" (error value     *)
(* returned), "panic" (nil dereference or index out of range) or "exit"    *)
(* (logger.Fatalf), and v is the receiver as the call leaves it.           *)
(***************************************************************************)
EXTENDS Integers, Sequences, FiniteSets, TLC

VARIABLES parsed, schema, pc, err, row, out, first, conf

vars == <<parsed, schema, pc, err, row, out, first, conf>>

----------------------------------------------------------------------------
(* Bounds of the checked input space.                                      *)

\* largest explicit column index of a raw schema
MaxIdx == 2
\* most prop entries of one vertex or edge
MaxProps == 2
\* most entries of a vertex's tags list
MaxTags == 2
\* longest record compiled
MaxRecLen == 3

----------------------------------------------------------------------------
(* Pointers.                                                               *)

Nil == <<>>

Ptr(v) == <<v>>

IsNil(p) == Len(p) = 0

Deref(p) == p[1]

----------------------------------------------------------------------------
(* Strings as character sequences.                                         *)

Upper == <<"A","B","C","D","E","F","G","H","I","J","K","L","M",
           "N","O","P","Q","R","S","T","U","V","W","X","Y","Z">>

Lower == <<"a","b","c","d","e","f","g","h","i","j","k","l","m",
           "n","o","p","q","r","s","t","u","v","w","x","y","z">>

Digits == <<"0","1","2","3","4","5","6","7","8","9">>

LowerChar(c) ==
  IF \E i \in 1..Len(Upper) : Upper[i] = c
  THEN Lower[CHOOSE i \in 1..Len(Upper) : Upper[i] = c]
  ELSE c

RECURSIVE ToLower(_)
\* strings.ToLower
ToLower(s) == IF Len(s) = 0 THEN <<>> ELSE <<LowerChar(s[1])>> \o ToLower(Tail(s))

UpperChar(c) ==
  IF \E i \in 1..Len(Lower) : Lower[i] = c
  THEN Upper[CHOOSE i \in 1..Len(Lower) : Lower[i] = c]
  ELSE c

RECURSIVE ToUpper(_)
\* strings.ToUpper
ToUpper(s) == IF Len(s) = 0 THEN <<>> ELSE <<UpperChar(s[1])>> \o ToUpper(Tail(s))

\* strings.HasPrefix
HasPrefix(s, p) == Len(s) >= Len(p) /\ SubSeq(s, 1, Len(p)) = p

RECURSIVE Join(_, _)
\* strings.Join
Join(ss, sep) ==
  IF Len(ss) = 0 THEN <<>>
  ELSE IF Len(ss) = 1 THEN ss[1]
  ELSE ss[1] \o sep \o Join(Tail(ss), sep)

RECURSIVE Split(_, _)
\* strings.Split on a one-character separator
Split(s, c) ==
  IF \A i \in 1..Len(s) : s[i] # c THEN <<s>>
  ELSE LET k == CHOOSE i \in 1..Len(s) :
                  s[i] = c /\ \A j \in 1..(i - 1) : s[j] # c
       IN  <<SubSeq(s, 1, k - 1)>> \o Split(SubSeq(s, k + 1, Len(s)), c)

\* one character of %q: the quote and the backslash are escaped
QuoteChar(c) == IF c = "\"" \/ c = "\\" THEN <<"\\", c>> ELSE <<c>>

RECURSIVE QuoteBody(_)
QuoteBody(s) == IF Len(s) = 0 THEN <<>> ELSE QuoteChar(s[1]) \o QuoteBody(Tail(s))

\* fmt.Sprintf("%q", s)
Quote(s) == <<"\"">> \o QuoteBody(s) \o <<"\"">>

----------------------------------------------------------------------------
(* String literals of the source and of the inputs.                        *)

s_empty == <<>>

s_edge == <<"e","d","g","e">>

s_vertex == <<"v","e","r","t","e","x">>

s_hash == <<"h","a","s","h">>

s_uuid == <<"u","u","i","d">>

s_bool == <<"b","o","o","l">>

s_int == <<"i","n","t">>

s_float == <<"f","l","o","a","t">>

s_double == <<"d","o","u","b","l","e">>

s_string == <<"s","t","r","i","n","g">>

s_timestamp == <<"t","i","m","e","s","t","a","m","p">>

s_date_timestamp == <<"d","a","t","e","-","t","i","m","e","s","t","a","m","p">>

----------------------------------------------------------------------------
(* pkg/base, which the importer's config package calls.                    *)

\* base.IsValidType
IsValidType(t) ==
  \/ t \in {s_bool, s_int, s_float, s_double, s_string, s_timestamp}
  \/ HasPrefix(t, s_date_timestamp \o <<":">>)

IsDigit(c) == \E i \in 1..Len(Digits) : Digits[i] = c

DigitVal(c) == (CHOOSE i \in 1..Len(Digits) : Digits[i] = c) - 1

RECURSIVE NatVal(_)
\* value of a digit string
NatVal(ds) ==
  IF Len(ds) = 0 THEN 0
  ELSE 10 * NatVal(SubSeq(ds, 1, Len(ds) - 1)) + DigitVal(ds[Len(ds)])

RECURSIVE NatStr(_)
\* decimal rendering of a natural number
NatStr(n) ==
  IF n < 10 THEN <<Digits[n + 1]>>
  ELSE NatStr(n \div 10) \o <<Digits[(n % 10) + 1]>>

\* the text parses as a decimal number: [+-] digits [. digits]
IsNumber(s) ==
  LET body == IF Len(s) > 0 /\ s[1] \in {"-", "+"} THEN Tail(s) ELSE s
      parts == Split(body, ".")
  IN  /\ Len(parts) \in {1, 2}
      /\ \A k \in 1..Len(parts) : \A i \in 1..Len(parts[k]) : IsDigit(parts[k][i])
      /\ \E k \in 1..Len(parts) : Len(parts[k]) > 0

\* base.TryConvInt64: the integer part of a number, any other text unchanged
TryConvInt64(s) ==
  IF ~IsNumber(s) THEN s
  ELSE LET neg == s[1] = "-"
           body == IF s[1] \in {"-", "+"} THEN Tail(s) ELSE s
           n == NatVal(Split(body, ".")[1])
       IN  IF neg /\ n > 0 THEN <<"-">> \o NatStr(n) ELSE NatStr(n)

\* base.TryConvDateTimestamp: the cell parsed with the layout; the rendering
\* is opaque here, a marked pair of the layout and the cell
TryConvDateTimestamp(s, layout) == <<"timestamp(">> \o layout \o <<"|">> \o s \o <<")">>

----------------------------------------------------------------------------
(* Outcomes of a call, and the error values the resolver returns.          *)

Out(st, msg, v) == [st |-> st, msg |-> msg, v |-> v]

NoErr == "nil"

ErrEdgeName == "Please configure edge name"

ErrTagName == "Please configure the vertex tag name"

ErrSchemaType == "Error schema type"

ErrPropType == "Error property type"

ErrVIDIndex == "Invalid vid index"

ErrRankIndex == "Invalid rank index"

ErrFunction == "Invalid function"

NilDeref == "nil pointer dereference"

FatalPropIndex == "Invalid prop index"

----------------------------------------------------------------------------
(* The schema resolver.                                                    *)

\* checkFunction comparing the generator without lowering its case
VID_checkFunction_caseSensitive(v) ==
  IF ~IsNil(v.Function)
     /\ Deref(v.Function) \notin {s_empty, s_hash, s_uuid}
  THEN Out("err", ErrFunction, v)
  ELSE Out("ok", NoErr, v)

\* VID.checkFunction
VID_checkFunction(v) ==
  IF ~IsNil(v.Function)
     /\ ToLower(Deref(v.Function)) \notin {s_empty, s_hash, s_uuid}
  THEN Out("err", ErrFunction, v)
  ELSE Out("ok", NoErr, v)

\* VID.validateAndReset
VID_validateAndReset(v, defaultVal) ==
  LET Check(v1) == IF Deref(v1.Index) < 0 THEN Out("err", ErrVIDIndex, v1)
                   ELSE VID_checkFunction(v1)
  IN  Check(IF IsNil(v.Index) THEN [v EXCEPT !.Index = Ptr(defaultVal)] ELSE v)

\* Rank.validateAndReset without the check of a negative index
Rank_validateAndReset_unchecked(r, defaultVal) ==
  Out("ok", NoErr,
      IF IsNil(r.Index) THEN [r EXCEPT !.Index = Ptr(defaultVal)] ELSE r)

\* Rank.validateAndReset
Rank_validateAndReset(r, defaultVal) ==
  LET Check(r1) == IF Deref(r1.Index) < 0 THEN Out("err", ErrRankIndex, r1)
                   ELSE Out("ok", NoErr, r1)
  IN  Check(IF IsNil(r.Index) THEN [r EXCEPT !.Index = Ptr(defaultVal)] ELSE r)

\* Prop.validateAndReset taking a configured index as counted from the default
Prop_validateAndReset_shifting(p, val) ==
  LET Check(p1) ==
        IF ~IsValidType(Deref(p1.Type)) THEN Out("err", ErrPropType, p1)
        ELSE IF IsNil(p1.Index)
             THEN Out("ok", NoErr, [p1 EXCEPT !.Index = Ptr(val)])
        ELSE IF Deref(p1.Index) < 0
             THEN IF IsNil(p1.Name) THEN Out("panic", NilDeref, p1)
                  ELSE Out("exit", FatalPropIndex, p1)
        ELSE Out("ok", NoErr, [p1 EXCEPT !.Index = Ptr(Deref(p1.Index) + val)])
  IN  IF IsNil(p.Type) THEN Out("panic", NilDeref, p)
      ELSE Check([p EXCEPT !.Type = Ptr(ToLower(Deref(p.Type)))])

\* Prop.validateAndReset
Prop_validateAndReset(p, val) ==
  LET Check(p1) ==
        IF ~IsValidType(Deref(p1.Type)) THEN Out("err", ErrPropType, p1)
        ELSE IF IsNil(p1.Index)
             THEN Out("ok", NoErr, [p1 EXCEPT !.Index = Ptr(val)])
        ELSE IF Deref(p1.Index) < 0
             THEN IF IsNil(p1.Name) THEN Out("panic", NilDeref, p1)
                  ELSE Out("exit", FatalPropIndex, p1)
        ELSE Out("ok", NoErr, p1)
  IN  IF IsNil(p.Type) THEN Out("panic", NilDeref, p)
      ELSE Check([p EXCEPT !.Type = Ptr(ToLower(Deref(p.Type)))])

RECURSIVE Tag_validateProps(_, _, _)
\* the loop of Tag.validateAndReset over t.Props, from position i (1-based)
Tag_validateProps(props, i, start) ==
  LET Step(r, ps) == IF r.st # "ok" THEN Out(r.st, r.msg, ps)
                     ELSE Tag_validateProps(ps, i + 1, start)
      Entry(r) == Step(r, [props EXCEPT ![i] = Ptr(r.v)])
  IN  IF i > Len(props) THEN Out("ok", NoErr, props)
      ELSE IF IsNil(props[i]) THEN Tag_validateProps(props, i + 1, start)
      ELSE Entry(Prop_validateAndReset(Deref(props[i]), (i - 1) + start))

\* Tag.validateAndReset
Tag_validateAndReset(t, start) ==
  LET Done(r) == Out(r.st, r.msg, [t EXCEPT !.Props = r.v])
  IN  IF IsNil(t.Name) THEN Out("err", ErrTagName, t)
      ELSE Done(Tag_validateProps(t.Props, 1, start))

RECURSIVE Vertex_validateTags_oneEach(_, _, _)
\* the tags loop advancing j by one per tag instead of by len(Props)
Vertex_validateTags_oneEach(tags, i, j) ==
  LET Step(r, ts) == IF r.st # "ok" THEN Out(r.st, r.msg, ts)
                     ELSE Vertex_validateTags_oneEach(ts, i + 1, j + 1)
      Entry(r) == Step(r, [tags EXCEPT ![i] = Ptr(r.v)])
  IN  IF i > Len(tags) THEN Out("ok", NoErr, tags)
      ELSE IF IsNil(tags[i]) THEN Vertex_validateTags_oneEach(tags, i + 1, j)
      ELSE Entry(Tag_validateAndReset(Deref(tags[i]), j))

RECURSIVE Vertex_validateTags(_, _, _)
\* the loop of Vertex.validateAndReset over v.Tags, from position i (1-based)
Vertex_validateTags(tags, i, j) ==
  LET Step(r, ts) == IF r.st # "ok" THEN Out(r.st, r.msg, ts)
                     ELSE Vertex_validateTags(ts, i + 1, j + Len(r.v.Props))
      Entry(r) == Step(r, [tags EXCEPT ![i] = Ptr(r.v)])
  IN  IF i > Len(tags) THEN Out("ok", NoErr, tags)
      ELSE IF IsNil(tags[i]) THEN Vertex_validateTags(tags, i + 1, j)
      ELSE Entry(Tag_validateAndReset(Deref(tags[i]), j))

\* Vertex.validateAndReset
Vertex_validateAndReset(v) ==
  LET Tags(v1, rt) == Out(rt.st, rt.msg, [v1 EXCEPT !.Tags = rt.v])
      Ident(rv, v1) == IF rv.st # "ok" THEN Out(rv.st, rv.msg, v1)
                       ELSE Tags(v1, Vertex_validateTags(v1.Tags, 1, 1))
      VIDDone(rv) == Ident(rv, [v EXCEPT !.VID = Ptr(rv.v)])
  IN  VIDDone(IF ~IsNil(v.VID) THEN VID_validateAndReset(Deref(v.VID), 0)
              ELSE Out("ok", NoErr, [Index |-> Ptr(0), Function |-> Nil]))

RECURSIVE Edge_validateProps_offByOne(_, _, _)
\* the props loop defaulting entry i to i+1+start
Edge_validateProps_offByOne(props, i, start) ==
  LET Step(r, ps) == IF r.st # "ok" THEN Out(r.st, r.msg, ps)
                     ELSE Edge_validateProps_offByOne(ps, i + 1, start)
      Entry(r) == Step(r, [props EXCEPT ![i] = Ptr(r.v)])
  IN  IF i > Len(props) THEN Out("ok", NoErr, props)
      ELSE IF IsNil(props[i])
           THEN Edge_validateProps_offByOne(props, i + 1, start)
      ELSE Entry(Prop_validateAndReset(Deref(props[i]), i + start))

RECURSIVE Edge_validateProps(_, _, _)
\* the loop of Edge.validateAndReset over e.Props, from position i (1-based)
Edge_validateProps(props, i, start) ==
  LET Step(r, ps) == IF r.st # "ok" THEN Out(r.st, r.msg, ps)
                     ELSE Edge_validateProps(ps, i + 1, start)
      Entry(r) == Step(r, [props EXCEPT ![i] = Ptr(r.v)])
  IN  IF i > Len(props) THEN Out("ok", NoErr, props)
      ELSE IF IsNil(props[i]) THEN Edge_validateProps(props, i + 1, start)
      ELSE Entry(Prop_validateAndReset(Deref(props[i]), (i - 1) + start))

\* Edge.validateAndReset
Edge_validateAndReset(e) ==
  LET PropsDone(e3, rp) == Out(rp.st, rp.msg, [e3 EXCEPT !.Props = rp.v])
      Props(e3, start) == PropsDone(e3, Edge_validateProps(e3.Props, 1, start))
      RankChecked(rr, e3) ==
        IF rr.st # "ok" THEN Out(rr.st, rr.msg, e3)
        ELSE Props(e3, IF IsNil(e3.Rank) THEN 2 ELSE 3)
      RankDone(e2, rr) == RankChecked(rr, [e2 EXCEPT !.Rank = rr.v])
      RankOut(r) == Out(r.st, r.msg, Ptr(r.v))
      Ranked(e2) ==
        RankDone(e2, IF ~IsNil(e2.Rank)
                     THEN RankOut(Rank_validateAndReset(Deref(e2.Rank), 2))
                     ELSE IF ~IsNil(e2.WithRanking) /\ Deref(e2.WithRanking)
                          THEN Out("ok", NoErr, Ptr([Index |-> Ptr(2)]))
                          ELSE Out("ok", NoErr, Nil))
      DstChecked(rd, e2) == IF rd.st # "ok" THEN Out(rd.st, rd.msg, e2)
                            ELSE Ranked(e2)
      DstDone(e1, rd) == DstChecked(rd, [e1 EXCEPT !.DstVID = Ptr(rd.v)])
      Dst(e1) ==
        DstDone(e1, IF ~IsNil(e1.DstVID)
                    THEN VID_validateAndReset(Deref(e1.DstVID), 1)
                    ELSE Out("ok", NoErr, [Index |-> Ptr(1), Function |-> Nil]))
      SrcChecked(rs, e1) == IF rs.st # "ok" THEN Out(rs.st, rs.msg, e1)
                            ELSE Dst(e1)
      SrcDone(rs) == SrcChecked(rs, [e EXCEPT !.SrcVID = Ptr(rs.v)])
  IN  IF IsNil(e.Name) THEN Out("err", ErrEdgeName, e)
      ELSE SrcDone(IF ~IsNil(e.SrcVID)
                   THEN VID_validateAndReset(Deref(e.SrcVID), 0)
                   ELSE Out("ok", NoErr, [Index |-> Ptr(0), Function |-> Nil]))

\* Schema.validateAndReset
Schema_validateAndReset(s) ==
  LET EdgeDone(r) == Out(r.st, r.msg, [s EXCEPT !.Edge = Ptr(r.v)])
      VertexDone(r) == Out(r.st, r.msg, [s EXCEPT !.Vertex = Ptr(r.v)])
      Switch(t) ==
        IF t = s_edge
        THEN IF ~IsNil(s.Edge)
             THEN EdgeDone(Edge_validateAndReset(Deref(s.Edge)))
             ELSE Out("ok", NoErr, s)
        ELSE IF t = s_vertex
        THEN IF ~IsNil(s.Vertex)
             THEN VertexDone(Vertex_validateAndReset(Deref(s.Vertex)))
             ELSE Out("ok", NoErr, s)
        ELSE Out("err", ErrSchemaType, s)
  IN  IF IsNil(s.Type) THEN Out("panic", NilDeref, s)
      ELSE Switch(ToLower(Deref(s.Type)))

----------------------------------------------------------------------------
(* The record compiler.  A result is [st, text]: st is "ok", "err" (error  *)
(* value returned), "panic" or "exit"; text is the string returned.        *)

Res(st, text) == [st |-> st, text |-> text]

InRange(record, idx) == idx >= 0 /\ idx < Len(record)

\* record[idx], Go's 0-based indexing
Cell(record, idx) == record[idx + 1]

\* Prop.IsStringType
Prop_IsStringType(p) == ToLower(Deref(p.Type)) = s_string

\* Prop.IsIntType
Prop_IsIntType(p) == ToLower(Deref(p.Type)) = s_int

\* Prop.IsDateTimestampType
Prop_IsDateTimestampType(p) == HasPrefix(ToLower(Deref(p.Type)), s_date_timestamp)

\* Prop.FormatValue with the bound test off by one: an index equal to the
\* record length passes the test and the record is read past its end
Prop_FormatValue_offByOne(p, record) ==
  LET Typed(q, r) ==
        IF Prop_IsStringType(q) THEN Res("ok", Quote(r))
        ELSE IF Prop_IsIntType(q) THEN Res("ok", TryConvInt64(r))
        ELSE IF Prop_IsDateTimestampType(q)
             THEN IF Len(Split(Deref(q.Type), ":")) < 2 THEN Res("panic", <<>>)
                  ELSE Res("ok", TryConvDateTimestamp(r, Split(Deref(q.Type), ":")[2]))
        ELSE Res("ok", r)
      Format(q) ==
        IF ~IsNil(q.Index) /\ Deref(q.Index) > Len(record) THEN Res("err", <<>>)
        ELSE IF IsNil(q.Index) \/ ~InRange(record, Deref(q.Index))
             THEN Res("panic", <<>>)
        ELSE IF IsNil(q.Type) THEN Res("panic", <<>>)
        ELSE Typed(q, Cell(record, Deref(q.Index)))
  IN  IF IsNil(p) THEN Res("panic", <<>>) ELSE Format(Deref(p))

\* Prop.FormatValue, p a pointer
Prop_FormatValue(p, record) ==
  LET Typed(q, r) ==
        IF Prop_IsStringType(q) THEN Res("ok", Quote(r))
        ELSE IF Prop_IsIntType(q) THEN Res("ok", TryConvInt64(r))
        ELSE IF Prop_IsDateTimestampType(q)
             THEN IF Len(Split(Deref(q.Type), ":")) < 2 THEN Res("panic", <<>>)
                  ELSE Res("ok", TryConvDateTimestamp(r, Split(Deref(q.Type), ":")[2]))
        ELSE Res("ok", r)
      Format(q) ==
        IF ~IsNil(q.Index) /\ Deref(q.Index) >= Len(record) THEN Res("err", <<>>)
        ELSE IF IsNil(q.Index) \/ ~InRange(record, Deref(q.Index))
             THEN Res("panic", <<>>)
        ELSE IF IsNil(q.Type) THEN Res("panic", <<>>)
        ELSE Typed(q, Cell(record, Deref(q.Index)))
  IN  IF IsNil(p) THEN Res("panic", <<>>) ELSE Format(Deref(p))

RECURSIVE Tag_FormatCells(_, _, _)
\* the loop of Tag.FormatValues over t.Props from position i: the cells, or
\* the exit of logger.Fatalf on the first error
Tag_FormatCells(props, i, record) ==
  LET Cons(c, rest) == [st |-> rest.st, cells |-> <<c.text>> \o rest.cells]
      Step(c) == IF c.st = "err" THEN [st |-> "exit", cells |-> <<>>]
                 ELSE IF c.st # "ok" THEN [st |-> c.st, cells |-> <<>>]
                 ELSE Cons(c, Tag_FormatCells(props, i + 1, record))
  IN  IF i > Len(props) THEN [st |-> "ok", cells |-> <<>>]
      ELSE Step(Prop_FormatValue(props[i], record))

\* Tag.FormatValues, t a pointer
Tag_FormatValues(t, record) ==
  LET Done(r) == IF r.st # "ok" THEN Res(r.st, <<>>)
                 ELSE Res("ok", Join(r.cells, <<",">>))
  IN  IF IsNil(t) THEN Res("panic", <<>>)
      ELSE Done(Tag_FormatCells(Deref(t).Props, 1, record))

RECURSIVE Vertex_FormatTags(_, _, _)
\* the loop of Vertex.FormatValues over v.Tags from position i
Vertex_FormatTags(tags, i, record) ==
  LET Cons(c, rest) == [st |-> rest.st, cells |-> <<c.text>> \o rest.cells]
      Step(c) == IF c.st # "ok" THEN [st |-> c.st, cells |-> <<>>]
                 ELSE Cons(c, Vertex_FormatTags(tags, i + 1, record))
  IN  IF i > Len(tags) THEN [st |-> "ok", cells |-> <<>>]
      ELSE Step(Tag_FormatValues(tags[i], record))

\* the VID branch of the FormatValues methods: function(%q cell), or the int
\* conversion of the cell when no function is set
VID_Format(vid, record) ==
  LET Format(d, c) ==
        IF ~IsNil(d.Function)
        THEN Res("ok", Deref(d.Function) \o <<"(">> \o Quote(c) \o <<")">>)
        ELSE Res("ok", TryConvInt64(c))
      Indexed(d) ==
        IF IsNil(d.Index) THEN Res("panic", <<>>)
        ELSE IF ~InRange(record, Deref(d.Index)) THEN Res("panic", <<>>)
        ELSE Format(d, Cell(record, Deref(d.Index)))
  IN  IF IsNil(vid) THEN Res("panic", <<>>) ELSE Indexed(Deref(vid))

\* Vertex.FormatValues, v a pointer
Vertex_FormatValues(v, record) ==
  LET Sprintf(cells, vid) ==
        IF vid.st # "ok" THEN Res(vid.st, <<>>)
        ELSE Res("ok", <<" ">> \o vid.text \o <<":", " ", "(">>
                       \o Join(cells.cells, <<",">>) \o <<")">>)
      Tags(d, cells) == IF cells.st # "ok" THEN Res(cells.st, <<>>)
                        ELSE Sprintf(cells, VID_Format(d.VID, record))
      Format(d) == Tags(d, Vertex_FormatTags(d.Tags, 1, record))
  IN  IF IsNil(v) THEN Res("panic", <<>>) ELSE Format(Deref(v))

RECURSIVE Edge_FormatRows(_, _, _, _)
\* the loop of Edge.FormatValues over the rows of the first prop's cell
Edge_FormatRows(rows, i, srcVID, rank) ==
  LET Sprintf(cells) == <<" ">> \o srcVID \o <<"-", ">">> \o TryConvInt64(cells[1])
                        \o rank \o <<":", "(">> \o cells[2] \o <<")", " ">>
      Cons(stmt, rest) == [st |-> rest.st, cells |-> <<stmt>> \o rest.cells]
      Step(cells) ==
        IF Len(cells) < 2 THEN [st |-> "panic", cells |-> <<>>]
        ELSE Cons(Sprintf(cells), Edge_FormatRows(rows, i + 1, srcVID, rank))
  IN  IF i > Len(rows) THEN [st |-> "ok", cells |-> <<>>]
      ELSE Step(Split(rows[i], "#"))

\* Edge.FormatValues, e a pointer
Edge_FormatValues(e, record) ==
  LET Done(rows) == IF rows.st # "ok" THEN Res(rows.st, <<>>)
                    ELSE Res("ok", Join(rows.cells, <<",">>))
      Rows(p0, srcVID, rank) ==
        IF IsNil(p0.Index) \/ ~InRange(record, Deref(p0.Index))
        THEN Res("panic", <<>>)
        ELSE Done(Edge_FormatRows(Split(Cell(record, Deref(p0.Index)), "&"),
                                  1, srcVID, rank))
      Src(d, src, rank) ==
        IF src.st # "ok" THEN Res(src.st, <<>>)
        ELSE IF Len(d.Props) = 0 \/ IsNil(d.Props[1]) THEN Res("panic", <<>>)
        ELSE Rows(Deref(d.Props[1]), src.text, rank)
      Ranked(d, rank) == Src(d, VID_Format(d.SrcVID, record), rank)
      Rank(d, r) ==
        IF ~InRange(record, Deref(r.Index)) THEN Res("panic", <<>>)
        ELSE Ranked(d, <<"@">> \o Cell(record, Deref(r.Index)))
      Format(d) ==
        IF ~IsNil(d.Rank) /\ ~IsNil(Deref(d.Rank).Index)
        THEN Rank(d, Deref(d.Rank))
        ELSE Ranked(d, <<>>)
  IN  IF IsNil(e) THEN Res("panic", <<>>) ELSE Format(Deref(e))

\* Schema.IsVertex
Schema_IsVertex(s) == ToUpper(Deref(s.Type)) = ToUpper(s_vertex)

\* the compilation of one record, dispatched on IsVertex as Schema.String is
Schema_FormatValues(s, record) ==
  IF IsNil(s.Type) THEN Res("panic", <<>>)
  ELSE IF Schema_IsVertex(s) THEN Vertex_FormatValues(s.Vertex, record)
  ELSE Edge_FormatValues(s.Edge, record)

----------------------------------------------------------------------------
(* Raw schemas: what yaml.Unmarshal hands to the resolver.  The input      *)
(* space is a union of families; each varies one group of fields over its  *)
(* whole domain and holds the other fields at one value.                   *)

in_name == <<"n">>

in_String == <<"S","t","r","i","n","g">>

in_INT == <<"I","N","T">>

in_bogus == <<"b","o","g","u","s">>

in_Hash == <<"H","a","s","h">>

in_md5 == <<"m","d","5">>

in_VERTEX == <<"V","E","R","T","E","X">>

in_Edge == <<"E","d","g","e">>

SeqsUpTo(S, n) == UNION {[1..k -> S] : k \in 0..n}

IdxOpt == {Nil} \cup {Ptr(i) : i \in (-1)..MaxIdx}

FnOpt == {Nil, Ptr(s_empty), Ptr(in_Hash), Ptr(s_uuid), Ptr(in_md5)}

TypeOpt == {Nil, Ptr(in_String), Ptr(in_INT), Ptr(in_bogus)}

NameOpt == {Nil, Ptr(in_name)}

BoolOpt == {Nil, Ptr(TRUE), Ptr(FALSE)}

PropOpt(names, types, idxs) ==
  {Nil} \cup {Ptr([Name |-> n, Type |-> t, Index |-> i]) :
                n \in names, t \in types, i \in idxs}

VIDOpt(idxs, fns) ==
  {Nil} \cup {Ptr([Index |-> i, Function |-> f]) : i \in idxs, f \in fns}

RankOpt(idxs) == {Nil} \cup {Ptr([Index |-> i]) : i \in idxs}

Vertex(vid, tags) == [VID |-> vid, Tags |-> tags]

Edge(name, ranking, src, dst, rank, props) ==
  [Name |-> name, WithRanking |-> ranking, Props |-> props,
   SrcVID |-> src, DstVID |-> dst, Rank |-> rank]

VertexSchema(v) == [Type |-> Ptr(in_VERTEX), Edge |-> Nil, Vertex |-> Ptr(v)]

EdgeSchema(e) == [Type |-> Ptr(in_Edge), Edge |-> Ptr(e), Vertex |-> Nil]

\* props that differ in their index only
IndexProp == PropOpt({Ptr(in_name)}, {Ptr(in_String)}, IdxOpt)

\* props that differ in their type only
TypeProp == PropOpt({Ptr(in_name)}, TypeOpt, {Nil})

\* props that differ in name, type and sign of the index
NamedProp == PropOpt(NameOpt, TypeOpt, {Nil, Ptr(-1)})

RECURSIVE TagLists(_, _, _, _)
\* the lists of k tags (nil entries included) with at most n prop entries in all
TagLists(names, props, k, n) ==
  IF k = 0 THEN {<<>>}
  ELSE {<<Nil>> \o r : r \in TagLists(names, props, k - 1, n)}
       \cup UNION {
              {<<Ptr([Name |-> nm, Props |-> ps])>> \o r :
                 nm \in names, ps \in [1..m -> props],
                 r \in TagLists(names, props, k - 1, n - m)} : m \in 0..n }

----------------------------------------------------------------------------
(* The program: a schema is parsed, resolved once, then records are        *)
(* compiled against it.                                                    *)

NoOut == [st |-> "none", text |-> <<>>]

\* no record compiled yet; else the first record compiled, what it gave, and
\* whether that record has been compiled again since
NoFirst == [row |-> <<>>, out |-> NoOut, repeated |-> FALSE]

\* the state once yaml.Unmarshal has produced schema s
Parsed(s) ==
  /\ parsed = s
  /\ schema = s
  /\ pc = "parsed"
  /\ err = NoErr
  /\ row = <<>>
  /\ out = NoOut
  /\ first = NoFirst
  /\ conf = Nil

\* vertices that differ in their column indexes
InitVertexIndex ==
  \E v \in VIDOpt(IdxOpt, {Nil}), k \in 0..MaxTags :
    \E ts \in TagLists({Ptr(in_name)}, IndexProp, k, MaxProps) :
      Parsed(VertexSchema(Vertex(v, ts)))

\* vertices that differ in tag names and prop types
InitVertexType ==
  \E k \in 0..MaxTags :
    \E ts \in TagLists(NameOpt, TypeProp, k, MaxProps) :
      Parsed(VertexSchema(Vertex(Nil, ts)))

\* vertices that differ in their VID
InitVertexVID ==
  \E v \in VIDOpt(IdxOpt, FnOpt) : Parsed(VertexSchema(Vertex(v, <<>>)))

\* edges that differ in the SrcVID, DstVID and prop indexes
InitEdgeIndex ==
  \E s \in VIDOpt(IdxOpt, {Nil}), d \in VIDOpt(IdxOpt, {Nil}) :
    \E ps \in SeqsUpTo(IndexProp, MaxProps) :
      Parsed(EdgeSchema(Edge(Ptr(in_name), Nil, s, d, Nil, ps)))

\* edges that differ in ranking and in the Rank and prop indexes
InitEdgeRank ==
  \E w \in BoolOpt, r \in RankOpt(IdxOpt), ps \in SeqsUpTo(IndexProp, MaxProps) :
    Parsed(EdgeSchema(Edge(Ptr(in_name), w, Nil, Nil, r, ps)))

\* edges that differ in ranking and in the SrcVID, DstVID and Rank indexes
InitEdgeColumns ==
  \E w \in BoolOpt, s \in VIDOpt(IdxOpt, {Nil}), d \in VIDOpt(IdxOpt, {Nil}) :
    \E r \in RankOpt(IdxOpt), ps \in SeqsUpTo(PropOpt({Ptr(in_name)}, {Ptr(in_String)}, {Nil}), 1) :
      Parsed(EdgeSchema(Edge(Ptr(in_name), w, s, d, r, ps)))

\* edges that differ in their name and in prop names, types and index sign
InitEdgeType ==
  \E n \in NameOpt, ps \in SeqsUpTo(NamedProp, MaxProps) :
    Parsed(EdgeSchema(Edge(n, Nil, Nil, Nil, Nil, ps)))

\* edges that differ in their SrcVID and DstVID
InitEdgeVID ==
  \E s \in VIDOpt(IdxOpt, FnOpt), d \in VIDOpt(IdxOpt, FnOpt) :
    Parsed(EdgeSchema(Edge(Ptr(in_name), Nil, s, d, Nil, <<>>)))

\* schemas that differ in the discriminator and in which section is present
InitSchemaType ==
  \E t \in {Nil, Ptr(s_vertex), Ptr(s_edge), Ptr(in_bogus)} :
    \E e \in {Nil, Ptr(Edge(Ptr(in_name), Nil, Nil, Nil, Nil, <<>>))} :
      \E v \in {Nil, Ptr(Vertex(Nil, <<>>))} :
        Parsed([Type |-> t, Edge |-> e, Vertex |-> v])

Init ==
  \/ InitVertexIndex
  \/ InitVertexType
  \/ InitVertexVID
  \/ InitEdgeIndex
  \/ InitEdgeRank
  \/ InitEdgeColumns
  \/ InitEdgeType
  \/ InitEdgeVID
  \/ InitSchemaType

\* Schema.validateAndReset on the parsed schema, as File.validateAndReset calls it
Validate ==
  LET Done(r) ==
        /\ schema' = r.v
        /\ err' = r.msg
        /\ pc' = CASE r.st = "ok" -> "resolved"
                   [] r.st = "err" -> "failed"
                   [] r.st = "panic" -> "panic"
                   [] r.st = "exit" -> "exit"
  IN  /\ pc = "parsed"
      /\ Done(Schema_validateAndReset(schema))
      /\ UNCHANGED <<parsed, row, out, first, conf>>

Next == Validate

Spec == Init /\ [][Next]_vars

\* Schema.validateAndReset called once more, on the schema it has resolved
Revalidate ==
  LET Done(r) ==
        /\ schema' = r.v
        /\ err' = r.msg
        /\ pc' = CASE r.st = "ok" -> "again"
                   [] r.st = "err" -> "failed"
                   [] r.st = "panic" -> "panic"
                   [] r.st = "exit" -> "exit"
  IN  /\ pc = "resolved"
      /\ Done(Schema_validateAndReset(schema))
      /\ UNCHANGED <<parsed, row, out, first, conf>>

SpecAgain == Init /\ [][Validate \/ Revalidate]_vars

----------------------------------------------------------------------------
(* Compilation: records are compiled against the resolved schema.          *)

c_101 == <<"1","0","1">>

c_9_5 == <<"9",".","5">>

c_rows == <<"5","#","1","&","6","#","x">>

c_Mary == <<"M","a","r","y">>

c_19 == <<"1","9">>

c_A == <<"A">>

c_5 == <<"5">>

c_0 == <<"0">>

Cells == {c_101, c_rows}

\* the records of the two compile scenarios
VertexExample == <<c_101, c_Mary, c_19>>

EdgeExample == <<c_A, c_5, c_0, c_9_5>>

\* the records compiled: plain cells, the last one possibly a cell of rows, and
\* the two examples
Records ==
  {r \in SeqsUpTo(Cells, MaxRecLen) : \A i \in 1..(Len(r) - 1) : r[i] = c_101}
  \cup {VertexExample, EdgeExample}

\* props that differ in their type, indexes defaulted
CompileProp == PropOpt({Ptr(in_name)}, {Ptr(s_string), Ptr(in_INT), Ptr(s_double)}, {Nil})

CompileFn == {Nil, Ptr(s_empty), Ptr(s_hash)}

\* vertices that differ in their tags and props
InitCompileTags ==
  \E k \in 0..MaxTags :
    \E ts \in TagLists({Ptr(in_name)}, CompileProp, k, MaxProps) :
      Parsed(VertexSchema(Vertex(Nil, ts)))

\* vertices that differ in their VID
InitCompileVID ==
  \E v \in VIDOpt({Nil, Ptr(MaxIdx)}, CompileFn) :
    \E ps \in SeqsUpTo({Ptr([Name |-> Ptr(in_name), Type |-> Ptr(s_string), Index |-> Nil])}, 1) :
      Parsed(VertexSchema(Vertex(v, <<Ptr([Name |-> Ptr(in_name), Props |-> ps])>>)))

\* edges that differ in their VIDs, ranking and props
InitCompileEdge ==
  \E s \in VIDOpt({Nil}, CompileFn), d \in VIDOpt({Nil}, {Nil, Ptr(s_hash)}) :
    \E w \in {Nil, Ptr(TRUE)}, ps \in SeqsUpTo(CompileProp, MaxProps) :
      Parsed(EdgeSchema(Edge(Ptr(in_name), w, s, d, Nil, ps)))

InitCompile ==
  \/ InitCompileTags
  \/ InitCompileVID
  \/ InitCompileEdge

\* what is remembered of the first record once a record is compiled
Remember(record, r) ==
  IF first = NoFirst THEN [row |-> record, out |-> r, repeated |-> FALSE]
  ELSE IF record = first.row THEN [first EXCEPT !.repeated = TRUE]
  ELSE first

\* Compile appending to the text of the call before
Compile_accumulating(record) ==
  LET Done(r) ==
        /\ out' = [st |-> r.st, text |-> out.text \o r.text]
        /\ pc' = IF r.st \in {"panic", "exit"} THEN r.st ELSE pc
        /\ first' = Remember(record, out')
  IN  /\ pc = "resolved"
      /\ Done(Schema_FormatValues(schema, record))
      /\ row' = record
      /\ UNCHANGED <<parsed, schema, err, conf>>

\* Compile with IsVertex storing the upper-cased type in the schema
Compile_writing(record) ==
  LET Done(r) ==
        /\ out' = r
        /\ pc' = IF r.st \in {"panic", "exit"} THEN r.st ELSE pc
        /\ first' = Remember(record, r)
  IN  /\ pc = "resolved"
      /\ Done(Schema_FormatValues(schema, record))
      /\ row' = record
      /\ schema' = [schema EXCEPT !.Type = Ptr(ToUpper(Deref(schema.Type)))]
      /\ UNCHANGED <<parsed, err, conf>>

\* one record compiled against the resolved schema; a panic or logger.Fatalf
\* ends the process
Compile(record) ==
  LET Done(r) ==
        /\ out' = r
        /\ pc' = IF r.st \in {"panic", "exit"} THEN r.st ELSE pc
        /\ first' = Remember(record, r)
  IN  /\ pc = "resolved"
      /\ Done(Schema_FormatValues(schema, record))
      /\ row' = record
      /\ UNCHANGED <<parsed, schema, err, conf>>

NextCompile ==
  \/ Validate
  \/ \E record \in Records : Compile(record)

SpecCompile == InitCompile /\ [][NextCompile]_vars

----------------------------------------------------------------------------
(* Prop.FormatValue on its own: one prop, as configured or as resolved,    *)
(* formats the cell of a record.                                           *)

ts_a == s_date_timestamp \o <<":", "a">>

ts_a_b == s_date_timestamp \o <<":", "a", ":", "b">>

in_TS_a == <<"D","a","t","e","-","T","i","m","e","s","t","a","m","p",":","a">>

c_x == <<"x">>

\* the types of the prop formatted
FormatType ==
  {Ptr(s_string), Ptr(in_String), Ptr(in_INT), Ptr(s_double), Ptr(in_bogus),
   Ptr(ts_a), Ptr(ts_a_b), Ptr(in_TS_a), Ptr(s_date_timestamp)}

FormatRecords == SeqsUpTo({c_9_5, c_x}, MaxRecLen)

\* the one prop of a vertex of one tag
TheProp(s) == Deref(Deref(s.Vertex).Tags[1]).Props[1]

\* vertices of one tag of one prop, which differ in its type and index
InitProp ==
  \E p \in PropOpt({Ptr(in_name)}, FormatType, IdxOpt) \ {Nil} :
    Parsed(VertexSchema(Vertex(Nil, <<Ptr([Name |-> Ptr(in_name), Props |-> <<p>>])>>)))

\* Prop.FormatValue called on the prop, resolved or as configured (pc "raw":
\* the call was made on a prop that was never resolved)
FormatValue(record) ==
  LET Done(r) ==
        /\ out' = r
        /\ pc' = IF r.st = "panic" THEN "panic"
                 ELSE IF pc = "parsed" THEN "raw" ELSE pc
  IN  /\ pc \in {"parsed", "resolved"}
      /\ Done(Prop_FormatValue(TheProp(schema), record))
      /\ row' = record
      /\ UNCHANGED <<parsed, schema, err, first, conf>>

NextProp ==
  \/ Validate
  \/ \E record \in FormatRecords : FormatValue(record)

SpecProp == InitProp /\ [][NextProp]_vars

----------------------------------------------------------------------------
(* The configuration: Parse, YAMLConfig.ValidateAndReset and the           *)
(* validateAndReset of the client settings, the connection, a file and its *)
(* csv section.                                                            *)

\* var version
version == <<"v","1","r","c","2">>

s_csv == <<"c","s","v">>

\* the defaults of NebulaClientSettings.validateAndReset
DefaultRetry == 1

DefaultConcurrency == 10

DefaultChannelBufferSize == 128

\* the default of File.validateAndReset
DefaultBatchSize == 128

\* defaultPath of YAMLConfig.ValidateAndReset
DefaultLogPath ==
  <<"/","t","m","p","/","n","e","b","u","l","a","-",
    "i","m","p","o","r","t","e","r",".","l","o","g">>

ErrRead == "read error"

ErrYAML == "yaml error"

ErrAbs == "cannot get the working directory"

ErrVersion == "The YAML configure version must be v1rc2"

ErrClientSettings == "please configure clientSettings"

ErrSpace == "Please configure the space name"

ErrConnection == "Please configure the connection information"

\* p, or d when p is nil: the `if x == nil { x = &d }` of the validators
OrDefault(p, d) == IF IsNil(p) THEN Ptr(d) ELSE p

\* filepath.Join of clean parts
PathJoin(parts) == Join(parts, <<"/">>)

\* filepath.Base of a clean path
PathBase(p) == Split(p, "/")[Len(Split(p, "/"))]

\* filepath.Dir of a clean path
PathDir(p) ==
  IF Len(Split(p, "/")) = 1 THEN <<".">>
  ELSE IF Len(p) - Len(PathBase(p)) = 1 THEN <<"/">>
  ELSE SubSeq(p, 1, Len(p) - Len(PathBase(p)) - 1)

\* filepath.Abs of a clean path
PathAbs(p) ==
  IF HasPrefix(p, <<"/">>) THEN p
  ELSE IF p = <<".">> THEN <<"/","w">>
  ELSE PathJoin(<<<<"/","w">>, p>>)

\* base.PathExists: fs is the set of the paths that exist
PathExists(fs, p) == p \in fs

\* NebulaClientConnection.validateAndReset
NebulaClientConnection_validateAndReset(c) ==
  Out("ok", NoErr,
      [c EXCEPT !.Address = OrDefault(@, <<"1","2","7",".","0",".","0",".","1",":","3","6","9","9">>),
                !.User = OrDefault(@, <<"u","s","e","r">>),
                !.Password = OrDefault(@, <<"p","a","s","s","w","o","r","d">>)])

\* NebulaClientSettings.validateAndReset
NebulaClientSettings_validateAndReset(n) ==
  LET Connected(n1, r) == Out(r.st, r.msg, [n1 EXCEPT !.Connection = Ptr(r.v)])
      Connect(n1) ==
        IF IsNil(n1.Connection) THEN Out("err", ErrConnection, n1)
        ELSE Connected(n1, NebulaClientConnection_validateAndReset(Deref(n1.Connection)))
  IN  IF IsNil(n.Space) THEN Out("err", ErrSpace, n)
      ELSE Connect([n EXCEPT !.Retry = OrDefault(@, DefaultRetry),
                             !.Concurrency = OrDefault(@, DefaultConcurrency),
                             !.ChannelBufferSize = OrDefault(@, DefaultChannelBufferSize)])

\* CSVConfig.validateAndReset
CSVConfig_validateAndReset(c) ==
  LET Delimited(c1) ==
        IF ~IsNil(c1.Delimiter) /\ Len(Deref(c1.Delimiter)) = 0
        THEN Out("err", "delimiter is empty string", c1)
        ELSE Out("ok", NoErr, c1)
  IN  Delimited([c EXCEPT !.WithHeader = OrDefault(@, FALSE),
                          !.WithLabel = OrDefault(@, FALSE)])

\* File.validateAndReset, f a pointer; fs is the set of the paths that exist,
\* and base.PathFileList of a file is taken to list that file
File_validateAndReset(f, dir, fs) ==
  LET Schemed(f4, r) == Out(r.st, r.msg, [f4 EXCEPT !.Schema = Ptr(r.v)])
      CheckSchema(f4) ==
        IF IsNil(f4.Schema) THEN Out("err", "Please configure file schema", f4)
        ELSE Schemed(f4, Schema_validateAndReset(Deref(f4.Schema)))
      WithCSV(f3, r) ==
        IF r.st # "ok" THEN Out(r.st, r.msg, [f3 EXCEPT !.CSV = Ptr(r.v)])
        ELSE CheckSchema([f3 EXCEPT !.CSV = Ptr(r.v)])
      CheckCSV(f3) ==
        IF IsNil(f3.CSV) THEN CheckSchema(f3)
        ELSE WithCSV(f3, CSVConfig_validateAndReset(Deref(f3.CSV)))
      CheckType(f2) ==
        IF IsNil(f2.Type) THEN Out("panic", NilDeref, f2)
        ELSE IF ToLower(Deref(f2.Type)) # s_csv THEN Out("err", "Invalid file data type", f2)
        ELSE CheckCSV(f2)
      Reset(f1) ==
        CheckType([f1 EXCEPT !.Paths = <<Deref(f1.Path)>>,
                             !.FailDataPath = OrDefault(@, PathJoin(<<PathAbs(PathDir(Deref(f1.Path))),
                                                                  <<"e","r","r">>,
                                                                  PathBase(Deref(f1.Path))>>)),
                             !.BatchSize = OrDefault(@, DefaultBatchSize),
                             !.InOrder = OrDefault(@, FALSE)])
      Locate(f0) ==
        IF PathExists(fs, Deref(f0.Path)) THEN Reset(f0)
        ELSE IF ~PathExists(fs, PathJoin(<<dir, Deref(f0.Path)>>))
             THEN Out("err", "File doesn't exist", f0)
        ELSE Reset([f0 EXCEPT !.Path = Ptr(PathJoin(<<dir, Deref(f0.Path)>>))])
      Start(f0) ==
        IF IsNil(f0.Path) THEN Out("err", "Please configure file path", f0) ELSE Locate(f0)
      Back(r) == Out(r.st, r.msg, Ptr(r.v))
  IN  IF IsNil(f) THEN Out("panic", NilDeref, f) ELSE Back(Start(Deref(f)))

RECURSIVE YAMLConfig_validateFiles(_, _, _, _)
\* the loop of YAMLConfig.ValidateAndReset over config.Files, from position i
YAMLConfig_validateFiles(files, i, dir, fs) ==
  LET Step(r, fl) == IF r.st # "ok" THEN Out(r.st, r.msg, fl)
                     ELSE YAMLConfig_validateFiles(fl, i + 1, dir, fs)
      Entry(r) == Step(r, [files EXCEPT ![i] = r.v])
  IN  IF i > Len(files) THEN Out("ok", NoErr, files)
      ELSE Entry(File_validateAndReset(files[i], dir, fs))

\* YAMLConfig.ValidateAndReset
YAMLConfig_ValidateAndReset(config, dir, fs) ==
  LET Filed(c2, r) == Out(r.st, r.msg, [c2 EXCEPT !.Files = r.v])
      Files(c2) ==
        IF Len(c2.Files) = 0 THEN Out("err", "There is no files in configuration", c2)
        ELSE Filed(c2, YAMLConfig_validateFiles(c2.Files, 1, dir, fs))
      Settled(r) ==
        IF r.st # "ok"
        THEN Out(r.st, r.msg, [config EXCEPT !.NebulaClientSettings = Ptr(r.v)])
        ELSE Files([config EXCEPT !.NebulaClientSettings = Ptr(r.v),
                                  !.LogPath = OrDefault(@, DefaultLogPath)])
  IN  IF IsNil(config.NebulaClientSettings)
      THEN Out("err", ErrClientSettings, config)
      ELSE Settled(NebulaClientSettings_validateAndReset(Deref(config.NebulaClientSettings)))

\* Parse: io is what reading the file, decoding it and filepath.Abs met, conf0
\* the decoded YAMLConfig; the result is the pointer returned, or nil. The
\* version test `conf.Version == nil && *conf.Version != version` dereferences
\* a nil version and is false for every other
Parse(io, conf0, dir, fs) ==
  LET Return(r) == IF r.st = "ok" THEN Out("ok", NoErr, Ptr(r.v))
                   ELSE Out(r.st, r.msg, Nil)
      Versioned(st) ==
        IF st = "panic" THEN Out("panic", NilDeref, Nil)
        ELSE IF st = "err" THEN Out("err", ErrVersion, Nil)
        ELSE IF io = "noabs" THEN Out("err", ErrAbs, Nil)
        ELSE Return(YAMLConfig_ValidateAndReset(conf0, dir, fs))
  IN  IF io = "unreadable" THEN Out("err", ErrRead, Nil)
      ELSE IF io = "malformed" THEN Out("err", ErrYAML, Nil)
      ELSE Versioned(IF IsNil(conf0.Version) THEN "panic" ELSE "ok")

----------------------------------------------------------------------------
(* The configurations decoded, and the specification of their validation.  *)

\* type NebulaClientConnection
Connection(user, password, address) ==
  [User |-> user, Password |-> password, Address |-> address]

\* type NebulaClientSettings
ClientSettings(retry, concurrency, buffer, space, connection) ==
  [Retry |-> retry, Concurrency |-> concurrency, ChannelBufferSize |-> buffer,
   Space |-> space, Connection |-> connection]

\* type CSVConfig
CSVConfig(withHeader, withLabel, delimiter) ==
  [WithHeader |-> withHeader, WithLabel |-> withLabel, Delimiter |-> delimiter]

\* type File, as decoded: Paths has no yaml key
File(path, failDataPath, batchSize, inOrder, type, csv, sch) ==
  [Paths |-> <<>>, Path |-> path, FailDataPath |-> failDataPath,
   BatchSize |-> batchSize, Limit |-> Nil, InOrder |-> inOrder,
   Type |-> type, CSV |-> csv, Schema |-> sch]

\* type YAMLConfig
YAMLConfig(ver, settings, logPath, files) ==
  [Version |-> ver, Description |-> Nil, NebulaClientSettings |-> settings,
   LogPath |-> logPath, Files |-> files]

\* the files of one configuration
MaxFiles == 2

\* the path of a data file, relative
in_path == <<"d","/","a">>

\* the directory of the configuration file
in_dir == <<"/","c">>

\* a configured number: none, negative, zero, positive
NumOpt == {Nil, Ptr(-1), Ptr(0), Ptr(3)}

GoodSettings ==
  ClientSettings(Nil, Nil, Nil, Ptr(in_name), Ptr(Connection(Nil, Nil, Nil)))

GoodSchema == VertexSchema(Vertex(Nil, <<>>))

GoodFile ==
  File(Ptr(in_path), Nil, Nil, Nil, Ptr(s_csv), Ptr(CSVConfig(Nil, Nil, Nil)),
       Ptr(GoodSchema))

\* the entries of the lists of several files
FileOpt ==
  {Nil, Ptr(GoodFile),
   Ptr(File(Ptr(in_path), Ptr(in_name), Ptr(3), Ptr(TRUE), Ptr(<<"C","S","V">>), Nil, Ptr(GoodSchema))),
   Ptr(File(Ptr(in_path), Nil, Nil, Nil, Nil, Nil, Ptr(GoodSchema))),
   Ptr(File(Ptr(in_path), Nil, Nil, Nil, Ptr(<<"j","s","o","n">>), Nil, Ptr(GoodSchema))),
   Ptr(File(Ptr(in_path), Nil, Ptr(0), Nil, Ptr(s_csv), Nil, Nil))}

\* what exists on disk: the data file as named, under the directory of the
\* configuration file, both or neither
FileSystems == SUBSET {in_path, PathJoin(<<in_dir, in_path>>)}

\* the state once yaml.Unmarshal has produced configuration c
Decoded(c) ==
  /\ parsed = c
  /\ conf = Ptr(c)
  /\ pc = "decoded"
  /\ err = NoErr
  /\ schema = [Type |-> Nil, Edge |-> Nil, Vertex |-> Nil]
  /\ row = <<>>
  /\ out = NoOut
  /\ first = NoFirst

\* configurations that differ in the version and in which sections are present
InitConfVersion ==
  \E v \in {Nil, Ptr(version), Ptr(<<"v","0">>)}, n \in {Nil, Ptr(GoodSettings)}, l \in {Nil, Ptr(in_name)} :
    \E fl \in {<<>>, <<Ptr(GoodFile)>>} :
      Decoded(YAMLConfig(v, n, l, fl))

\* configurations that differ in the numbers of the client settings
InitConfSettings ==
  \E r \in NumOpt, c \in NumOpt, b \in NumOpt :
    Decoded(YAMLConfig(Ptr(version),
                       Ptr(ClientSettings(r, c, b, Ptr(in_name), Ptr(Connection(Nil, Nil, Nil)))),
                       Nil, <<Ptr(GoodFile)>>))

\* configurations that differ in the space and the connection
InitConfConnection ==
  \E s \in {Nil, Ptr(in_name)}, cn \in {Nil} \cup {Ptr(Connection(u, p, a)) : u \in {Nil, Ptr(in_name)}, p \in {Nil, Ptr(in_name)}, a \in {Nil, Ptr(in_name)}} :
    Decoded(YAMLConfig(Ptr(version), Ptr(ClientSettings(Nil, Nil, Nil, s, cn)),
                       Nil, <<Ptr(GoodFile)>>))

\* configurations of one file, which differ in its path, numbers, type and schema
InitConfFile ==
  \E p \in {Nil, Ptr(in_path)}, b \in NumOpt, o \in BoolOpt, t \in {Nil, Ptr(s_csv), Ptr(<<"C","S","V">>), Ptr(<<"j","s","o","n">>)} :
    \E cs \in {Nil, Ptr(CSVConfig(Nil, Nil, Nil))}, sc \in {Nil, Ptr(GoodSchema), Ptr([Type |-> Ptr(in_bogus), Edge |-> Nil, Vertex |-> Nil])} :
      Decoded(YAMLConfig(Ptr(version), Ptr(GoodSettings), Nil,
                         <<Ptr(File(p, Nil, b, o, t, cs, sc))>>))

\* configurations of one file, which differ in its csv section
InitConfCSV ==
  \E cs \in {Nil} \cup {Ptr(CSVConfig(h, l, d)) : h \in BoolOpt, l \in BoolOpt, d \in {Nil, Ptr(s_empty), Ptr(<<",">>)}}, fd \in {Nil, Ptr(in_name)} :
    Decoded(YAMLConfig(Ptr(version), Ptr(GoodSettings), Nil,
                       <<Ptr(File(Ptr(in_path), fd, Nil, Nil, Ptr(s_csv), cs, Ptr(GoodSchema)))>>))

\* configurations that differ in their list of files
InitConfFiles ==
  \E fl \in SeqsUpTo(FileOpt, MaxFiles) :
    Decoded(YAMLConfig(Ptr(version), Ptr(GoodSettings), Nil, fl))

InitConfig ==
  \/ InitConfVersion
  \/ InitConfSettings
  \/ InitConfConnection
  \/ InitConfFile
  \/ InitConfCSV
  \/ InitConfFiles

\* Parse of the configuration file, whose decoding gave `parsed`
ParseConfig(io, fs) ==
  LET Done(r) ==
        /\ conf' = r.v
        /\ err' = r.msg
        /\ pc' = CASE r.st = "ok" -> "loaded"
                   [] r.st = "err" -> "refused"
                   [] r.st = "panic" -> "parse panic"
                   [] r.st = "exit" -> "parse exit"
  IN  /\ pc = "decoded"
      /\ Done(Parse(io, parsed, in_dir, fs))
      /\ UNCHANGED <<parsed, schema, row, out, first>>

\* YAMLConfig.ValidateAndReset called on the decoded configuration
ValidateAndReset(fs) ==
  LET Done(r) ==
        /\ conf' = Ptr(r.v)
        /\ err' = r.msg
        /\ pc' = CASE r.st = "ok" -> "valid"
                   [] r.st = "err" -> "invalid"
                   [] r.st = "panic" -> "panic"
                   [] r.st = "exit" -> "exit"
  IN  /\ pc = "decoded"
      /\ Done(YAMLConfig_ValidateAndReset(Deref(conf), in_dir, fs))
      /\ UNCHANGED <<parsed, schema, row, out, first>>

NextConfig ==
  \/ \E io \in {"ok", "unreadable", "malformed", "noabs"}, fs \in FileSystems : ParseConfig(io, fs)
  \/ \E fs \in FileSystems : ValidateAndReset(fs)

SpecConfig == InitConfig /\ [][NextConfig]_vars

----------------------------------------------------------------------------
(* Vocabulary of the properties.                                           *)

SameLetter(c, d) ==
  c = d \/ \E i \in 1..Len(Upper) : {c, d} = {Upper[i], Lower[i]}

\* a and b are equal up to the case of their letters
EqFold(a, b) == Len(a) = Len(b) /\ \A i \in 1..Len(a) : SameLetter(a[i], b[i])

IsType(s, name) == ~IsNil(s.Type) /\ EqFold(Deref(s.Type), name)

\* the schema names the vertex variant and carries it
HasVertex(s) == IsType(s, s_vertex) /\ ~IsNil(s.Vertex)

\* the schema names the edge variant and carries it
HasEdge(s) == IsType(s, s_edge) /\ ~IsNil(s.Edge)

RECURSIVE Present(_)
\* the non-nil entries of a list of pointers, dereferenced, in order
Present(ps) ==
  IF Len(ps) = 0 THEN <<>>
  ELSE (IF IsNil(ps[1]) THEN <<>> ELSE <<Deref(ps[1])>>) \o Present(Tail(ps))

RECURSIVE TagProps(_)
\* the present props of the present tags, in declaration order
TagProps(tags) ==
  IF Len(tags) = 0 THEN <<>>
  ELSE (IF IsNil(tags[1]) THEN <<>> ELSE Present(Deref(tags[1]).Props))
       \o TagProps(Tail(tags))

RECURSIVE EntriesBefore(_, _)
\* the number of prop entries declared by the present tags before tag i
EntriesBefore(tags, i) ==
  IF i <= 1 THEN 0
  ELSE EntriesBefore(tags, i - 1)
       + (IF IsNil(tags[i - 1]) THEN 0 ELSE Len(Deref(tags[i - 1]).Props))

\* the index a field has after resolution: the explicit one, else the default
Expected(given, default) == IF IsNil(given) THEN Ptr(default) ELSE given

GivenVIDIndex(vid) == IF IsNil(vid) THEN Nil ELSE Deref(vid).Index

GivenFunction(vid) == IF IsNil(vid) THEN Nil ELSE Deref(vid).Function

\* the generator is absent, empty, hash or uuid in any case of letters
Supported(fn) ==
  IsNil(fn) \/ \E g \in {s_empty, s_hash, s_uuid} : EqFold(Deref(fn), g)

NonNegative(idx) == IsNil(idx) \/ Deref(idx) >= 0

\* every column index of a vertex, VID first
VertexIndexes(v) ==
  (IF IsNil(v.VID) THEN <<>> ELSE <<Deref(v.VID).Index>>)
  \o [k \in 1..Len(TagProps(v.Tags)) |-> TagProps(v.Tags)[k].Index]

\* every column index of an edge: SrcVID, DstVID, Rank, props
EdgeIndexes(e) ==
  (IF IsNil(e.SrcVID) THEN <<>> ELSE <<Deref(e.SrcVID).Index>>)
  \o (IF IsNil(e.DstVID) THEN <<>> ELSE <<Deref(e.DstVID).Index>>)
  \o (IF IsNil(e.Rank) THEN <<>> ELSE <<Deref(e.Rank).Index>>)
  \o [k \in 1..Len(Present(e.Props)) |-> Present(e.Props)[k].Index]

\* the column indexes of the variant the schema names
SchemaIndexes(s) ==
  IF HasVertex(s) THEN VertexIndexes(Deref(s.Vertex))
  ELSE IF HasEdge(s) THEN EdgeIndexes(Deref(s.Edge))
  ELSE <<>>

Distinct(xs) == \A i, j \in 1..Len(xs) : i # j => xs[i] # xs[j]

----------------------------------------------------------------------------
(* C1: after a vertex resolves, its VID index is the explicit one or 0,    *)
(* and the prop at entry k (counting from 0 over the props lists of the    *)
(* tags in declaration order) has its explicit index or k+1.               *)

\* C1: a resolved vertex has VID index explicit-or-0 and prop entry k explicit-or-k+1
C1_VertexDefaults ==
  (pc = "resolved" /\ HasVertex(parsed)) =>
    LET pv == Deref(parsed.Vertex)
        rv == Deref(schema.Vertex)
    IN  /\ ~IsNil(rv.VID)
        /\ Deref(rv.VID).Index = Expected(GivenVIDIndex(pv.VID), 0)
        /\ Len(rv.Tags) = Len(pv.Tags)
        /\ \A i \in 1..Len(pv.Tags) :
             ~IsNil(pv.Tags[i]) =>
               LET pps == Deref(pv.Tags[i]).Props
                   rps == Deref(rv.Tags[i]).Props
               IN  /\ Len(rps) = Len(pps)
                   /\ \A m \in 1..Len(pps) :
                        ~IsNil(pps[m]) =>
                          Deref(rps[m]).Index =
                            Expected(Deref(pps[m]).Index, EntriesBefore(pv.Tags, i) + m)

\* two tags of one prop each, nothing given: VID 0, props 1 and 2
C1_Witness ==
  /\ pc = "resolved"
  /\ HasVertex(parsed)
  /\ IsNil(Deref(parsed.Vertex).VID)
  /\ Len(Deref(parsed.Vertex).Tags) = 2
  /\ \A i \in 1..2 :
       /\ ~IsNil(Deref(parsed.Vertex).Tags[i])
       /\ Len(Deref(Deref(parsed.Vertex).Tags[i]).Props) = 1
       /\ ~IsNil(Deref(Deref(parsed.Vertex).Tags[i]).Props[1])
       /\ IsNil(Deref(Deref(Deref(parsed.Vertex).Tags[i]).Props[1]).Index)
  /\ VertexIndexes(Deref(schema.Vertex)) = <<Ptr(0), Ptr(1), Ptr(2)>>

----------------------------------------------------------------------------
(* C2: after an edge resolves, SrcVID has its explicit index or 0 and      *)
(* DstVID its explicit index or 1; a Rank exists exactly when a rank entry *)
(* was given or withRanking is true, with its explicit index or 2; the     *)
(* prop at entry i (from 0) has its explicit index, or 2+i when no Rank    *)
(* exists and 3+i when one does.                                           *)

RankRequested(e) ==
  ~IsNil(e.Rank) \/ (~IsNil(e.WithRanking) /\ Deref(e.WithRanking))

GivenRankIndex(rank) == IF IsNil(rank) THEN Nil ELSE Deref(rank).Index

\* what C2 says of SrcVID, DstVID and Rank
C2_Columns(pe, re) ==
  /\ ~IsNil(re.SrcVID)
  /\ Deref(re.SrcVID).Index = Expected(GivenVIDIndex(pe.SrcVID), 0)
  /\ ~IsNil(re.DstVID)
  /\ Deref(re.DstVID).Index = Expected(GivenVIDIndex(pe.DstVID), 1)
  /\ ~IsNil(re.Rank) <=> RankRequested(pe)
  /\ ~IsNil(re.Rank) => Deref(re.Rank).Index = Expected(GivenRankIndex(pe.Rank), 2)
  /\ Len(re.Props) = Len(pe.Props)

\* C2, amended: SrcVID 0, DstVID 1, Rank 2, and prop entry i at 2+i, or 3+i
\* when a Rank exists, unless explicit; a default may repeat an index in use
C2_EdgeDefaults ==
  (pc = "resolved" /\ HasEdge(parsed)) =>
    LET pe == Deref(parsed.Edge)
        re == Deref(schema.Edge)
    IN  /\ C2_Columns(pe, re)
        /\ \A i \in 1..Len(pe.Props) :
             ~IsNil(pe.Props[i]) =>
               Deref(re.Props[i]).Index =
                 Expected(Deref(pe.Props[i]).Index,
                          (IF IsNil(re.Rank) THEN 2 ELSE 3) + (i - 1))

\* the indexes in use when prop entry i is reached
UsedBefore(re, i) ==
  {Deref(re.SrcVID).Index, Deref(re.DstVID).Index}
  \cup (IF IsNil(re.Rank) THEN {} ELSE {Deref(re.Rank).Index})
  \cup {Deref(re.Props[j]).Index : j \in {k \in 1..(i - 1) : ~IsNil(re.Props[k])}}

\* C2 as stated: a defaulted prop index is the next free one, used by nothing
\* before it
C2_NextFreeIndex ==
  (pc = "resolved" /\ HasEdge(parsed)) =>
    LET pe == Deref(parsed.Edge)
        re == Deref(schema.Edge)
    IN  /\ C2_Columns(pe, re)
        /\ \A i \in 1..Len(pe.Props) :
             (~IsNil(pe.Props[i]) /\ IsNil(Deref(pe.Props[i]).Index)) =>
               Deref(re.Props[i]).Index \notin UsedBefore(re, i)

\* ranking requested by withRanking alone, a second prop defaulted to 4
C2_Witness ==
  /\ pc = "resolved"
  /\ HasEdge(parsed)
  /\ IsNil(Deref(parsed.Edge).Rank)
  /\ RankRequested(Deref(parsed.Edge))
  /\ Len(Deref(parsed.Edge).Props) = 2
  /\ ~IsNil(Deref(parsed.Edge).Props[2])
  /\ IsNil(Deref(Deref(parsed.Edge).Props[2]).Index)
  /\ Deref(Deref(schema.Edge).Rank).Index = Ptr(2)
  /\ Deref(Deref(schema.Edge).Props[2]).Index = Ptr(4)

----------------------------------------------------------------------------
(* C3: whenever resolution returns no error, the variant the type names is *)
(* populated, every VID and declared Rank has an index, and every entry of *)
(* every tags and props list is non-nil with a non-nil index.              *)

PropsFull(ps) ==
  \A i \in 1..Len(ps) : ~IsNil(ps[i]) /\ ~IsNil(Deref(ps[i]).Index)

VIDFull(vid) == ~IsNil(vid) /\ ~IsNil(Deref(vid).Index)

VertexFull(v) ==
  /\ VIDFull(v.VID)
  /\ \A i \in 1..Len(v.Tags) : ~IsNil(v.Tags[i]) /\ PropsFull(Deref(v.Tags[i]).Props)

EdgeFull(e) ==
  /\ VIDFull(e.SrcVID)
  /\ VIDFull(e.DstVID)
  /\ IsNil(e.Rank) \/ ~IsNil(Deref(e.Rank).Index)
  /\ PropsFull(e.Props)

\* the schema is what C3 calls fully resolved
FullyResolved(s) ==
  \/ IsType(s, s_vertex) /\ ~IsNil(s.Vertex) /\ VertexFull(Deref(s.Vertex))
  \/ IsType(s, s_edge) /\ ~IsNil(s.Edge) /\ EdgeFull(Deref(s.Edge))

\* C3: a schema that resolved without error is fully resolved
C3_FullyResolvedOrFailed == pc = "resolved" => FullyResolved(schema)

----------------------------------------------------------------------------
(* C4: in every schema that resolved, every column index is >= 0.          *)

\* C4, amended: every index of a resolved schema is >= 0 (they may repeat)
C4_NonNegativeIndexes ==
  pc = "resolved" =>
    \A k \in 1..Len(SchemaIndexes(schema)) : NonNegative(SchemaIndexes(schema)[k])

\* C4 as stated: the indexes are >= 0 and no two of one entity are equal
C4_UniqueIndexes ==
  pc = "resolved" =>
    /\ \A k \in 1..Len(SchemaIndexes(schema)) : NonNegative(SchemaIndexes(schema)[k])
    /\ Distinct(SchemaIndexes(schema))

\* an edge resolved with a defaulted SrcVID and an explicit DstVID on column 0
C4_Witness ==
  /\ pc = "resolved"
  /\ HasEdge(parsed)
  /\ IsNil(GivenVIDIndex(Deref(parsed.Edge).SrcVID))
  /\ GivenVIDIndex(Deref(parsed.Edge).DstVID) = Ptr(0)
  /\ Deref(Deref(schema.Edge).SrcVID).Index = Ptr(0)
  /\ Deref(Deref(schema.Edge).DstVID).Index = Ptr(0)

----------------------------------------------------------------------------
(* C5: a schema whose only defect is a negative explicit index (of a VID,  *)
(* a Rank or a Prop) makes resolution return an error.                     *)

PropsSound(ps) ==
  \A i \in 1..Len(ps) :
    /\ ~IsNil(ps[i])
    /\ ~IsNil(Deref(ps[i]).Name)
    /\ ~IsNil(Deref(ps[i]).Type)
    /\ \E ty \in {s_bool, s_int, s_float, s_double, s_string, s_timestamp} :
         EqFold(Deref(Deref(ps[i]).Type), ty)

\* nothing is missing or unsupported in the variant the schema names
Sound(s) ==
  \/ /\ HasVertex(s)
     /\ Supported(GivenFunction(Deref(s.Vertex).VID))
     /\ \A i \in 1..Len(Deref(s.Vertex).Tags) :
          LET tg == Deref(s.Vertex).Tags[i]
          IN  ~IsNil(tg) /\ ~IsNil(Deref(tg).Name) /\ PropsSound(Deref(tg).Props)
  \/ /\ HasEdge(s)
     /\ ~IsNil(Deref(s.Edge).Name)
     /\ Supported(GivenFunction(Deref(s.Edge).SrcVID))
     /\ Supported(GivenFunction(Deref(s.Edge).DstVID))
     /\ PropsSound(Deref(s.Edge).Props)

HasNegativeIndex(s) ==
  \E k \in 1..Len(SchemaIndexes(s)) : ~NonNegative(SchemaIndexes(s)[k])

\* C5: a negative explicit index ends resolution with a returned error
C5_NegativeIndexIsAnError ==
  (pc # "parsed" /\ Sound(parsed) /\ HasNegativeIndex(parsed)) => pc = "failed"

----------------------------------------------------------------------------
(* C6: a VID with a non-negative index resolves exactly when its generator *)
(* is absent, empty, hash or uuid in any case of letters, and the resolver *)
(* returns the function error otherwise; for a vertex VID, an edge SrcVID  *)
(* and an edge DstVID.                                                     *)

VIDIndexOk(vid) == NonNegative(GivenVIDIndex(vid))

\* C6: the function error is returned exactly for an unsupported generator
C6_GeneratorValidation ==
  /\ (pc # "parsed" /\ HasVertex(parsed)) =>
       LET vid == Deref(parsed.Vertex).VID
       IN  VIDIndexOk(vid) =>
             ((pc = "failed" /\ err = ErrFunction) <=> ~Supported(GivenFunction(vid)))
  /\ (pc # "parsed" /\ HasEdge(parsed) /\ ~IsNil(Deref(parsed.Edge).Name)) =>
       LET src == Deref(parsed.Edge).SrcVID
           dst == Deref(parsed.Edge).DstVID
       IN  /\ VIDIndexOk(src) =>
                (~Supported(GivenFunction(src)) => (pc = "failed" /\ err = ErrFunction))
           /\ (VIDIndexOk(src) /\ Supported(GivenFunction(src)) /\ VIDIndexOk(dst)) =>
                ((pc = "failed" /\ err = ErrFunction) <=> ~Supported(GivenFunction(dst)))

\* an edge resolved with SrcVID uuid and DstVID Hash
C6_Witness ==
  /\ pc = "resolved"
  /\ HasEdge(parsed)
  /\ GivenFunction(Deref(parsed.Edge).SrcVID) = Ptr(s_uuid)
  /\ GivenFunction(Deref(parsed.Edge).DstVID) = Ptr(in_Hash)

----------------------------------------------------------------------------
(* C7: a schema with no type, a type other than vertex or edge, an edge    *)
(* with no name, a tag with no name, or a prop whose type is missing or    *)
(* not valid makes resolution return an error.                             *)

\* the first entry of the list is a prop with a missing or unknown type
FirstPropTypeBad(ps) ==
  /\ Len(ps) > 0
  /\ ~IsNil(ps[1])
  /\ \/ IsNil(Deref(ps[1]).Type)
     \/ \A ty \in {s_bool, s_int, s_float, s_double, s_string, s_timestamp} :
          ~EqFold(Deref(Deref(ps[1]).Type), ty)

\* the first defect the resolver meets is one C7 names
IdentityDefect(s) ==
  \/ IsNil(s.Type)
  \/ ~IsType(s, s_vertex) /\ ~IsType(s, s_edge)
  \/ HasEdge(s) /\ IsNil(Deref(s.Edge).Name)
  \/ /\ HasEdge(s)
     /\ IsNil(Deref(s.Edge).SrcVID) /\ IsNil(Deref(s.Edge).DstVID)
     /\ IsNil(Deref(s.Edge).Rank)
     /\ FirstPropTypeBad(Deref(s.Edge).Props)
  \/ /\ HasVertex(s)
     /\ IsNil(Deref(s.Vertex).VID)
     /\ Len(Deref(s.Vertex).Tags) > 0
     /\ ~IsNil(Deref(s.Vertex).Tags[1])
     /\ \/ IsNil(Deref(Deref(s.Vertex).Tags[1]).Name)
        \/ FirstPropTypeBad(Deref(Deref(s.Vertex).Tags[1]).Props)

\* C7: a missing identity field or an unknown type ends resolution with a
\* returned error
C7_IdentityDefectIsAnError ==
  (pc # "parsed" /\ IdentityDefect(parsed)) => pc = "failed"

----------------------------------------------------------------------------
(* Vocabulary of the statements: what the rendering grammar asks for.      *)

\* a record has been compiled
Compiled == out.st # "none"

\* the record has a cell for every index of the schema
LongEnough(s, record) ==
  \A k \in 1..Len(SchemaIndexes(s)) :
    /\ ~IsNil(SchemaIndexes(s)[k])
    /\ InRange(record, Deref(SchemaIndexes(s)[k]))

\* the value of a prop: string quoted, int converted, anything else raw
Value(p, record) ==
  IF EqFold(Deref(p.Type), s_string) THEN Quote(Cell(record, Deref(p.Index)))
  ELSE IF EqFold(Deref(p.Type), s_int) THEN TryConvInt64(Cell(record, Deref(p.Index)))
  ELSE Cell(record, Deref(p.Index))

\* the values of a list of props, comma-joined
Values(ps, record) ==
  Join([k \in 1..Len(ps) |-> Value(ps[k], record)], <<",">>)

\* a generator is set: hash or uuid; absent and empty are both none
GeneratorSet(vid) ==
  ~IsNil(Deref(vid).Function) /\ Deref(Deref(vid).Function) # s_empty

\* generator("<raw-cell>"), or the int conversion of the cell when none is set
Rendered(vid, record) ==
  IF GeneratorSet(vid)
  THEN Deref(Deref(vid).Function) \o <<"(">>
       \o Quote(Cell(record, Deref(Deref(vid).Index))) \o <<")">>
  ELSE TryConvInt64(Cell(record, Deref(Deref(vid).Index)))

\* <rendered VID>: (<values>)
VertexStatement(v, record) ==
  Rendered(v.VID, record) \o <<":", " ", "(">>
  \o Values(TagProps(v.Tags), record) \o <<")">>

\* <rendered srcVID>-><rendered dstVID>[@<rank-cell>]:(<values>)
EdgeStatement(e, record) ==
  Rendered(e.SrcVID, record) \o <<"-", ">">> \o Rendered(e.DstVID, record)
  \o (IF IsNil(e.Rank) THEN <<>>
      ELSE <<"@">> \o Cell(record, Deref(Deref(e.Rank).Index)))
  \o <<":", "(">> \o Values(Present(e.Props), record) \o <<")">>

\* the text is the fragment, alone or after one space
Begins(text, fragment) ==
  HasPrefix(text, fragment) \/ HasPrefix(text, <<" ">> \o fragment)

----------------------------------------------------------------------------
(* C8: for a resolved vertex schema and a record long enough for every     *)
(* index, Vertex.FormatValues returns exactly <rendered VID>: (<values>).  *)

\* C8: the compiled vertex statement is exactly <rendered VID>: (<values>)
C8_VertexStatement ==
  (Compiled /\ HasVertex(schema) /\ LongEnough(schema, row)) =>
    /\ out.st = "ok"
    /\ out.text = VertexStatement(Deref(schema.Vertex), row)

----------------------------------------------------------------------------
(* C9: for a resolved edge schema and a record long enough for every       *)
(* index, Edge.FormatValues returns exactly one statement                  *)
(* <rendered srcVID>-><rendered dstVID>[@<rank-cell>]:(<values>).          *)

\* C9: the compiled edge statement is exactly src->dst[@rank]:(<values>)
C9_EdgeStatement ==
  (Compiled /\ HasEdge(schema) /\ LongEnough(schema, row)) =>
    /\ out.st = "ok"
    /\ out.text = EdgeStatement(Deref(schema.Edge), row)

----------------------------------------------------------------------------
(* C10: a statement that compiled renders each VID by one rule: the        *)
(* generator applied to the quoted cell when hash or uuid is set, the int  *)
(* conversion of the cell when the generator is absent or empty; for the   *)
(* vertex VID, the edge SrcVID and the edge DstVID.                        *)

\* C10: every VID of a compiled statement is rendered by the one rule
C10_VIDRendering ==
  /\ (Compiled /\ out.st = "ok" /\ HasVertex(schema)) =>
       Begins(out.text, Rendered(Deref(schema.Vertex).VID, row) \o <<":">>)
  /\ (Compiled /\ out.st = "ok" /\ HasEdge(schema)) =>
       Begins(out.text, Rendered(Deref(schema.Edge).SrcVID, row) \o <<"-", ">">>)
  /\ (Compiled /\ out.st = "ok" /\ HasEdge(schema) /\ LongEnough(schema, row)) =>
       Begins(out.text, Rendered(Deref(schema.Edge).SrcVID, row) \o <<"-", ">">>
                        \o Rendered(Deref(schema.Edge).DstVID, row))

----------------------------------------------------------------------------
(* C11: for an in-range index Prop.FormatValue returns the quoted cell for *)
(* string, the int conversion for int, the timestamp conversion with the   *)
(* FORMAT part for date-timestamp:FORMAT and the raw cell for every other  *)
(* type, matching type names in any case of letters, and never fails.      *)

\* Prop.FormatValue has been called
Formatted == out.st # "none"

\* the type reads date-timestamp:FORMAT
IsTimestampType(ty) ==
  /\ Len(ty) >= Len(s_date_timestamp) + 1
  /\ EqFold(SubSeq(ty, 1, Len(s_date_timestamp) + 1), s_date_timestamp \o <<":">>)

\* the FORMAT part: what follows date-timestamp:
FormatPart(ty) == SubSeq(ty, Len(s_date_timestamp) + 2, Len(ty))

\* the value the rules give a cell under a type
ByType(ty, cell) ==
  IF EqFold(ty, s_string) THEN Quote(cell)
  ELSE IF EqFold(ty, s_int) THEN TryConvInt64(cell)
  ELSE IF IsTimestampType(ty) THEN TryConvDateTimestamp(cell, FormatPart(ty))
  ELSE cell

\* the index of the prop names a cell of the record
PropInRange(p, record) == ~IsNil(p.Index) /\ InRange(record, Deref(p.Index))

\* C11: a call with an in-range index returns the value its type's rule gives
C11_ValueByType ==
  (Formatted /\ PropInRange(Deref(TheProp(schema)), row)) =>
    out = Res("ok", ByType(Deref(Deref(TheProp(schema)).Type),
                          Cell(row, Deref(Deref(TheProp(schema)).Index))))

----------------------------------------------------------------------------
(* C12: when a Prop, VID or Rank index of the resolved schema is >= the    *)
(* record length, compiling the record ends in an error value for that     *)
(* record and the process goes on to the other records.                    *)

\* some index of the schema has no cell in the record
OutOfRange(s, record) ==
  \E k \in 1..Len(SchemaIndexes(s)) :
    /\ ~IsNil(SchemaIndexes(s)[k])
    /\ Deref(SchemaIndexes(s)[k]) >= Len(record)

\* C12: an out-of-range index is an error of the record, never of the process
C12_OutOfRangeIsRecordScoped ==
  (Compiled /\ OutOfRange(schema, row)) => (out.st = "err" /\ pc = "resolved")

----------------------------------------------------------------------------
(* C13: two compilations of the same record against the same resolved      *)
(* schema, whatever was compiled in between, give the same text or the     *)
(* same failure.                                                           *)

----------------------------------------------------------------------------
(* C14: a compilation leaves the resolved schema as it was, so the         *)
(* compilations over one shared schema do not affect one another.          *)

Accepted(p) ==
  /\ ~IsNil(p) /\ ~IsNil(Deref(p).Type) /\ ~IsNil(Deref(p).Index)
  /\ IsValidType(Deref(Deref(p).Type))
  /\ Deref(Deref(p).Index) >= 0

PropIndex(s) == Deref(Deref(TheProp(s)).Index)

\* C20: Prop.FormatValue, called on a prop the resolver accepts, returns an
\* error and the empty value when the prop's index is at or beyond the length
\* of the record, and a value and no error when the index is within the
\* record; it never reads the record out of its bounds (never panics).
C20_ErrorIffOutOfRange ==
  (Formatted /\ Accepted(TheProp(schema))) =>
    IF PropIndex(schema) >= Len(row)
    THEN out.st = "err" /\ out.text = <<>>
    ELSE out.st = "ok"

\* a resolved prop whose index is the length of a record that is not empty
C20_Witness ==
  /\ Formatted /\ pc = "resolved" /\ Accepted(TheProp(schema))
  /\ Len(row) > 0 /\ PropIndex(schema) = Len(row)
  /\ out.st = "err"

----------------------------------------------------------------------------
(* C19: a nil entry of a tags or props list is refused by the resolver.    *)

NilAmong(xs) == \E i \in 1..Len(xs) : IsNil(xs[i])

\* the schema's variant has a nil entry in its tags, or in a props list
HasNilEntry(s) ==
  \/ /\ HasVertex(s)
     /\ \/ NilAmong(Deref(s.Vertex).Tags)
        \/ \E i \in 1..Len(Deref(s.Vertex).Tags) :
             /\ ~IsNil(Deref(s.Vertex).Tags[i])
             /\ NilAmong(Deref(Deref(s.Vertex).Tags[i]).Props)
  \/ HasEdge(s) /\ NilAmong(Deref(s.Edge).Props)

\* C19: resolution of a schema with a nil entry among its tags or props never
\* succeeds: once it has run it has returned an error, and no resolved schema
\* holds a nil entry.
C19_NilEntryIsAnError ==
  (HasNilEntry(parsed) /\ pc # "parsed") => (pc = "failed" /\ err # NoErr)

----------------------------------------------------------------------------
(* C15: the defaults of the configuration.                                 *)

\* validation of the configuration has succeeded
Validated == pc \in {"valid", "loaded"}

\* a setting after validation: the default when it was omitted, else as configured
Defaulted(before, after, d) ==
  IF IsNil(before) THEN after = Ptr(d) ELSE after = before

\* the csv settings of a decoded file: none when the csv section is omitted
CSVSetting(f, key) == IF IsNil(f.CSV) THEN Nil ELSE Deref(f.CSV)[key]

FileDefaults(before, after) ==
  /\ Defaulted(before.BatchSize, after.BatchSize, DefaultBatchSize)
  /\ Defaulted(before.InOrder, after.InOrder, FALSE)
  /\ ~IsNil(after.CSV)
  /\ Defaulted(CSVSetting(before, "WithHeader"), Deref(after.CSV).WithHeader, FALSE)
  /\ Defaulted(CSVSetting(before, "WithLabel"), Deref(after.CSV).WithLabel, FALSE)

SettingsDefaults(before, after) ==
  /\ Defaulted(before.Retry, after.Retry, DefaultRetry)
  /\ Defaulted(before.Concurrency, after.Concurrency, DefaultConcurrency)
  /\ Defaulted(before.ChannelBufferSize, after.ChannelBufferSize,
               DefaultChannelBufferSize)

ConfigDefaults(before, after) ==
  /\ SettingsDefaults(Deref(before.NebulaClientSettings),
                      Deref(after.NebulaClientSettings))
  /\ Defaulted(before.LogPath, after.LogPath, DefaultLogPath)
  /\ \A i \in 1..Len(before.Files) :
       FileDefaults(Deref(before.Files[i]), Deref(after.Files[i]))

\* C15: after validation succeeds, retry, concurrency, channelBufferSize,
\* logPath, and every file's batchSize, inOrder, csv.withHeader and
\* csv.withLabel have their default (1, 10, 128, /tmp/nebula-importer.log,
\* 128, false, false, false) when omitted and their configured value otherwise.
C15_ConfigurationDefaults == Validated => ConfigDefaults(parsed, Deref(conf))

----------------------------------------------------------------------------
(* C16: Parse refuses a configuration whose version is missing or is not   *)
(* the supported one.                                                      *)

\* Parse has run to its end
ParseEnded == pc \in {"loaded", "refused", "parse panic", "parse exit"}

\* the decoded configuration names the supported version
VersionSupported == parsed.Version = Ptr(version)

\* C16: when the version of the decoded configuration is missing or differs
\* from the supported one, Parse returns the version error (unless the file
\* could not be read or decoded at all) and never goes on to validation.
C16_VersionChecked ==
  (ParseEnded /\ ~VersionSupported) =>
    (pc = "refused" /\ err \in {ErrRead, ErrYAML, ErrVersion})

----------------------------------------------------------------------------
(* C17: a malformed configuration is refused with an error.                *)

\* a decoded file lacks its path, its type or its schema, or has a type other
\* than csv, or a schema the resolver refuses
FileDefective(f) ==
  \/ IsNil(f.Path)
  \/ IsNil(f.Type)
  \/ ~IsNil(f.Type) /\ ~EqFold(Deref(f.Type), s_csv)
  \/ IsNil(f.Schema)
  \/ ~IsNil(f.Schema) /\ Schema_validateAndReset(Deref(f.Schema)).st = "err"

SettingsDefective(c) ==
  \/ IsNil(c.NebulaClientSettings)
  \/ /\ ~IsNil(c.NebulaClientSettings)
     /\ \/ IsNil(Deref(c.NebulaClientSettings).Space)
        \/ IsNil(Deref(c.NebulaClientSettings).Connection)

Defective(c) ==
  \/ SettingsDefective(c)
  \/ Len(c.Files) = 0
  \/ \E i \in 1..Len(c.Files) : ~IsNil(c.Files[i]) /\ FileDefective(Deref(c.Files[i]))

\* the error of the first defect of the client settings
SettingsError(c) ==
  IF IsNil(c.NebulaClientSettings) THEN ErrClientSettings
  ELSE IF IsNil(Deref(c.NebulaClientSettings).Space) THEN ErrSpace
  ELSE ErrConnection

\* YAMLConfig.ValidateAndReset has run to its end
ValidationEnded == pc \in {"valid", "invalid", "panic", "exit"}

\* C17: validation of a configuration that lacks clientSettings, the space, the
\* connection, files, a file's path, type csv or a valid schema returns an
\* error, the one of the client settings first; Parse of such a configuration
\* (of the supported version) returns an error and no configuration.
C17_MalformedIsRefused ==
  /\ (ValidationEnded /\ Defective(parsed)) =>
        /\ pc = "invalid" /\ err # NoErr
        /\ SettingsDefective(parsed) => err = SettingsError(parsed)
  /\ (ParseEnded /\ VersionSupported /\ Defective(parsed)) =>
        /\ pc = "refused" /\ err # NoErr /\ conf = Nil
        /\ SettingsDefective(parsed) =>
             err \in {ErrRead, ErrYAML, ErrAbs, SettingsError(parsed)}

----------------------------------------------------------------------------
(* C18: the numbers of a validated configuration are usable.               *)

SettingsUsable(n) ==
  /\ Deref(n.Concurrency) >= 1
  /\ Deref(n.ChannelBufferSize) >= 0
  /\ Deref(n.Retry) >= 0

\* C18: after validation succeeds, concurrency >= 1, channelBufferSize >= 0,
\* retry >= 0 and every file's batchSize >= 1.
C18_NumbersValid ==
  Validated =>
    /\ SettingsUsable(Deref(Deref(conf).NebulaClientSettings))
    /\ \A i \in 1..Len(Deref(conf).Files) :
         Deref(Deref(Deref(conf).Files[i]).BatchSize) >= 1

----------------------------------------------------------------------------
(* C21: resolving a resolved schema again succeeds and changes nothing.    *)

\* C21: Schema.validateAndReset applied to a schema on which it has succeeded
\* succeeds again and leaves the schema as it was: the same indexes of the
\* VIDs, the Rank and the props, the same Rank presence, the same generators.
C21_Idempotent ==
  [][pc = "resolved" => (pc' = "again" /\ err' = NoErr /\ schema' = schema)]_vars

\* an edge with ranking requested and no Rank given, SrcVID index configured,
\* DstVID and prop index defaulted, resolved twice
C21_Witness ==
  /\ pc = "again"
  /\ HasEdge(parsed)
  /\ RankRequested(Deref(parsed.Edge))
  /\ IsNil(Deref(parsed.Edge).Rank)
  /\ ~IsNil(GivenVIDIndex(Deref(parsed.Edge).SrcVID))
  /\ IsNil(Deref(parsed.Edge).DstVID)
  /\ Len(Deref(parsed.Edge).Props) = 1
  /\ ~IsNil(Deref(parsed.Edge).Props[1])
  /\ IsNil(Deref(Deref(parsed.Edge).Props[1]).Index)
  /\ ~IsNil(Deref(schema.Edge).Rank)
  /\ Deref(Deref(schema.Edge).Props[1]).Index = Ptr(3)

====
